---- MODULE Spec2Model ----
(***************************************************************************)
(* Model of app/main.py: the podcast download-and-tag pipeline.            *)
(*                                                                         *)
(* Text values (hrefs, titles, dates, file names) are sequences of         *)
(* one-character strings, so that the string operations of the script     *)
(* (re.sub, str.replace, str.strip, re.search, strptime, strftime,         *)
(* startswith, concatenation) are computed character by character.         *)
(***************************************************************************)
EXTENDS Integers, Sequences, FiniteSets, TLC

(***************************************************************************)
(* Bounds of the model.                                                    *)
(***************************************************************************)
\* longest input string of the pure-function specifications
MaxLen == 3
\* number of pipeline runs (process launches) in one behaviour
MaxRuns == 2
\* number of calendar days the clock can advance during a behaviour
MaxDays == 1

(***************************************************************************)
(* Characters.                                                             *)
(***************************************************************************)
Backslash == "\\"
Quote == "\""
Newline == "\n"
CarriageReturn == "\r"
Tab == "\t"

Digits == {"0", "1", "2", "3", "4", "5", "6", "7", "8", "9"}

\* Optional values: what find() or a search returns.  NoElem is "nothing
\* found", Elem(x) is the found value x.
NoElem == <<>>

Elem(x) == <<x>>

TextOf(e) == e[1]

\* all strings over alphabet A of length at most n
RECURSIVE StringsUpTo(_, _)
StringsUpTo(A, n) ==
    IF n = 0 THEN {<<>>}
    ELSE LET shorter == StringsUpTo(A, n - 1)
         IN  shorter \cup {Append(s, c) : s \in {t \in shorter : Len(t) = n - 1}, c \in A}

\* str.startswith(prefix)
StartsWith(s, prefix) ==
    /\ Len(s) >= Len(prefix)
    /\ SubSeq(s, 1, Len(prefix)) = prefix

\* characters str.strip() removes (the ones of Python's whitespace that the
\* model's alphabets contain)
Whitespace == {" ", Tab, Newline, CarriageReturn}

\* str.strip(): drop leading and trailing whitespace
RECURSIVE LStrip(_)
LStrip(s) ==
    IF s # <<>> /\ Head(s) \in Whitespace THEN LStrip(Tail(s)) ELSE s

RECURSIVE RStrip(_)
RStrip(s) ==
    IF s # <<>> /\ s[Len(s)] \in Whitespace THEN RStrip(SubSeq(s, 1, Len(s) - 1)) ELSE s

Strip(s) == RStrip(LStrip(s))

\* str.replace(old, new) for a one-character old
ReplaceChar(s, old, new) ==
    [i \in 1..Len(s) |-> IF s[i] = old THEN new ELSE s[i]]

(***************************************************************************)
(* sanitize_filename_component                                             *)
(***************************************************************************)
\* the character class of the re.sub, without the slash
ForbiddenNoSlash == {Backslash, "*", "?", ":", Quote, "<", ">", "|"}

\* line 56: the character class of the re.sub
ForbiddenChars == {Backslash, "/", "*", "?", ":", Quote, "<", ">", "|"}

\* a substitution that deletes the characters of the class
SubForbiddenDeletes(s) ==
    SelectSeq(s, LAMBDA c : c \notin {Backslash, "/", "*", "?", ":", Quote, "<", ">", "|"})

\* re.sub(r'[\\/*?:"<>|]', "_", name_component)
SubForbidden(s) ==
    [i \in 1..Len(s) |-> IF s[i] \in ForbiddenChars THEN "_" ELSE s[i]]

sanitize_filename_component(name_component) ==
    Strip(ReplaceChar(ReplaceChar(SubForbidden(name_component), Newline, "_"),
                      CarriageReturn, "_"))

(***************************************************************************)
(* Dates: re.search(r'(\d{2}\.\d{2}\.\d{4})'), datetime.strptime with      *)
(* '%d.%m.%Y', datetime.strftime with '%Y-%m-%d', datetime.now().          *)
(***************************************************************************)
DigitSeq == <<"0", "1", "2", "3", "4", "5", "6", "7", "8", "9">>

DigitChar(n) == DigitSeq[n + 1]

DigitVal(c) == CHOOSE n \in 0..9 : DigitSeq[n + 1] = c

\* int() of a string of digits
RECURSIVE ToInt(_)
ToInt(s) ==
    IF s = <<>> THEN 0
    ELSE 10 * ToInt(SubSeq(s, 1, Len(s) - 1)) + DigitVal(s[Len(s)])

\* decimal digits of n, without leading zeros
RECURSIVE ToDecimal(_)
ToDecimal(n) ==
    IF n < 10 THEN <<DigitChar(n)>>
    ELSE Append(ToDecimal(n \div 10), DigitChar(n % 10))

\* n written with at least w digits, zero-filled on the left
RECURSIVE ZeroFill(_, _)
ZeroFill(s, w) == IF Len(s) >= w THEN s ELSE ZeroFill(<<"0">> \o s, w)

\* does \d{2}\.\d{2}\.\d{4} match s at position p
DateMatchAt(s, p) ==
    /\ p + 9 <= Len(s)
    /\ \A k \in {0, 1, 3, 4, 6, 7, 8, 9} : s[p + k] \in Digits
    /\ s[p + 2] = "."
    /\ s[p + 5] = "."

\* re.search: the position of the leftmost match, 0 when there is none
DateSearch(s) ==
    LET hits == {p \in 1..Len(s) : DateMatchAt(s, p)}
    IN  IF hits = {} THEN 0 ELSE CHOOSE p \in hits : \A q \in hits : p <= q

IsLeap(y) == (y % 4 = 0 /\ y % 100 # 0) \/ y % 400 = 0

DaysInMonth(y, m) ==
    IF m \in {4, 6, 9, 11} THEN 30
    ELSE IF m = 2 THEN (IF IsLeap(y) THEN 29 ELSE 28)
    ELSE 31

\* the fields strptime('%d.%m.%Y') reads from a matched dd.mm.yyyy
DateFields(g) ==
    [d |-> ToInt(SubSeq(g, 1, 2)), m |-> ToInt(SubSeq(g, 4, 5)), y |-> ToInt(SubSeq(g, 7, 10))]

\* strptime raises ValueError unless %d is 01..31, %m is 01..12 and
\* datetime(y, m, d) is a date of the calendar (datetime.MINYEAR = 1)
StrptimeOk(g) ==
    LET f == DateFields(g)
    IN  /\ f.d \in 1..31
        /\ f.m \in 1..12
        /\ f.y >= 1
        /\ f.d <= DaysInMonth(f.y, f.m)

\* strftime('%Y-%m-%d'); %Y of a year below 1000 is zero-filled to four
\* digits or not, depending on the C library under the interpreter
Strftime(date, pads_year) ==
    (IF pads_year THEN ZeroFill(ToDecimal(date.y), 4) ELSE ToDecimal(date.y))
        \o <<"-">> \o ZeroFill(ToDecimal(date.m), 2)
        \o <<"-">> \o ZeroFill(ToDecimal(date.d), 2)

\* the day after date
NextDay(date) ==
    IF date.d < DaysInMonth(date.y, date.m) THEN [date EXCEPT !.d = @ + 1]
    ELSE IF date.m < 12 THEN [date EXCEPT !.d = 1, !.m = @ + 1]
    ELSE [d |-> 1, m |-> 1, y |-> date.y + 1]

\* lines 146-160, taking the current date whatever the page says
IsoDateIgnoresPage(time_element, now, pads_year) == Strftime(now, pads_year)

\* lines 146-160: meta_iso_date_str from the first <time> element
\* (time_element is NoElem or Elem(its text)), at clock reading now
IsoDate(time_element, now, pads_year) ==
    LET date_str_raw == IF time_element = NoElem THEN <<>> ELSE Strip(TextOf(time_element))
        p == DateSearch(date_str_raw)
        g == SubSeq(date_str_raw, p, p + 9)
    IN  IF p # 0
        THEN IF StrptimeOk(g)
             THEN Strftime(DateFields(g), pads_year)
             ELSE Strftime(now, pads_year)
        ELSE Strftime(now, pads_year)

(***************************************************************************)
(* Configuration (lines 11-21).                                            *)
(***************************************************************************)
BASE_URL == <<"h", "t", "t", "p", "s", ":", "/", "/", "w", "w", "w", ".", "d", "e", "u", "t", "s", "c", "h", "l", "a", "n", "d", "f", "u", "n", "k", ".", "d", "e">>

MAIN_PAGE_URL == BASE_URL \o <<"/", "k", "l", "a", "s", "s", "i", "k", "-", "p", "o", "p", "-", "e", "t", "-", "c", "e", "t", "e", "r", "a", "-", "1", "0", "0", ".", "h", "t", "m", "l">>

YT_DLP_EXECUTABLE == "yt-dlp"

FFMPEG_EXECUTABLE == "ffmpeg"

(***************************************************************************)
(* Listing markup, as the sequence of its tags.  Each tag records what the *)
(* two link-extraction strategies see of it:                               *)
(*   re_article  its text begins <article class="b-article-teaser          *)
(*   bs_article  it opens an <article> whose classes include               *)
(*               b-article-teaser                                          *)
(*   re_anchor   its text begins <a href="                                 *)
(*   bs_anchor   it is an <a> with an href attribute                       *)
(***************************************************************************)
Markup(kind, re_art, bs_art, re_a, bs_a, href) ==
    [kind |-> kind, re_article |-> re_art, bs_article |-> bs_art,
     re_anchor |-> re_a, bs_anchor |-> bs_a, href |-> href]

\* <article class="b-article-teaser">
Teaser == Markup("article", TRUE, TRUE, FALSE, FALSE, <<>>)
\* <article id="t" class="b-article-teaser">
TeaserIdFirst == Markup("article", FALSE, TRUE, FALSE, FALSE, <<>>)
\* <article class="b-article-teaser-wide">
TeaserWide == Markup("article", TRUE, FALSE, FALSE, FALSE, <<>>)
\* <article class="b-other">
OtherArticle == Markup("article", FALSE, FALSE, FALSE, FALSE, <<>>)
\* </article>
EndArticle == Markup("/article", FALSE, FALSE, FALSE, FALSE, <<>>)
\* <a href="h">
Anchor(h) == Markup("a", FALSE, FALSE, TRUE, TRUE, h)
\* <a class="t" href="h">
AnchorClassFirst(h) == Markup("a", FALSE, FALSE, FALSE, TRUE, h)
\* <a name="n">
AnchorNoHref == Markup("a", FALSE, FALSE, FALSE, FALSE, <<>>)

\* line 91: re.search(r'<article class="b-article-teaser.*?<a href="([^"]+)"',
\* html, re.DOTALL): the leftmost article text after which some <a href="
\* with a non-empty value follows, and lazily the nearest such anchor.
\* The position of the captured anchor, 0 when there is no match.
RegexAnchorPos(html) ==
    LET anchors(i) == {j \in (i + 1)..Len(html) : html[j].re_anchor /\ html[j].href # <<>>}
        starts == {i \in 1..Len(html) : html[i].re_article /\ anchors(i) # {}}
    IN  IF starts = {} THEN 0
        ELSE LET i == CHOOSE s \in starts : \A s2 \in starts : s <= s2
             IN  CHOOSE j \in anchors(i) : \A j2 \in anchors(i) : j <= j2

\* The parse tree of html.parser: the position of the end tag that closes
\* the article opened before position j, depth articles being open inside
\* it; Len(html) + 1 when the article stays open to the end of the page.
RECURSIVE ArticleEnd(_, _, _)
ArticleEnd(html, j, depth) ==
    IF j > Len(html) THEN j
    ELSE IF html[j].kind = "article" THEN ArticleEnd(html, j + 1, depth + 1)
    ELSE IF html[j].kind = "/article"
         THEN IF depth = 0 THEN j ELSE ArticleEnd(html, j + 1, depth - 1)
    ELSE ArticleEnd(html, j + 1, depth)

\* lines 96-103: soup.find('article', class_='b-article-teaser'), then
\* article_teaser.find('a', href=True): the first anchor with an href among
\* the descendants of the first teaser article.
\* The position of that anchor, 0 when there is none.
SoupAnchorPos(html) ==
    LET arts == {i \in 1..Len(html) : html[i].bs_article}
    IN  IF arts = {} THEN 0
        ELSE LET i == CHOOSE a \in arts : \A a2 \in arts : a <= a2
                 as == {j \in (i + 1)..(ArticleEnd(html, i + 1, 0) - 1) : html[j].bs_anchor}
             IN  IF as = {} THEN 0 ELSE CHOOSE j \in as : \A j2 \in as : j <= j2

\* lines 91-110 without the fallback of lines 93-104
ExtractHrefRegexOnly(html) ==
    IF RegexAnchorPos(html) # 0 THEN Elem(html[RegexAnchorPos(html)].href) ELSE NoElem

\* lines 91-110: relative_episode_url, or NoElem where the script exits
ExtractHref(html) ==
    LET m == RegexAnchorPos(html)
        s == SoupAnchorPos(html)
    IN  IF m # 0 THEN Elem(html[m].href)
        ELSE IF s = 0 \/ html[s].href = <<>> THEN NoElem
        ELSE Elem(html[s].href)

\* lines 113-116
ResolveUrl(relative_episode_url) ==
    IF StartsWith(relative_episode_url, <<"/">>)
    THEN BASE_URL \o relative_episode_url
    ELSE relative_episode_url

\* an absolute URL: one with the http or https scheme and an authority
IsAbsoluteUrl(u) ==
    \/ StartsWith(u, <<"h", "t", "t", "p", "s", ":", "/", "/">>) /\ Len(u) > 8
    \/ StartsWith(u, <<"h", "t", "t", "p", ":", "/", "/">>) /\ Len(u) > 7

(***************************************************************************)
(* Episode markup, as what BeautifulSoup's find() returns for the four     *)
(* elements the script reads: Elem(the text of the first matching          *)
(* element), or NoElem.                                                    *)
(***************************************************************************)
Page(kicker, title, description, time) ==
    [kicker |-> kicker, headline_title |-> title,
     description |-> description, time |-> time]

\* line 135: the default of meta_episode_title
DefaultTitle == <<"U", "n", "b", "e", "k", "a", "n", "n", "t", "e", "r", " ", "S", "e", "n", "d", "u", "n", "g", "s", "t", "i", "t", "e", "l">>

\* line 144: re.sub(r'\s{2,}', ' ', text): every run of two or more
\* whitespace characters becomes one space
RECURSIVE CollapseWhitespace(_)
CollapseWhitespace(s) ==
    IF s = <<>> THEN <<>>
    ELSE IF Len(s) >= 2 /\ s[1] \in Whitespace /\ s[2] \in Whitespace
         THEN <<" ">> \o CollapseWhitespace(LStrip(s))
         ELSE <<s[1]>> \o CollapseWhitespace(Tail(s))

\* lines 133-160: the metadata record of an episode page
Metadata(soup_episode, now, pads_year) ==
    [title |-> IF soup_episode.kicker = NoElem THEN DefaultTitle
               ELSE Strip(TextOf(soup_episode.kicker)),
     subtitle |-> IF soup_episode.headline_title = NoElem THEN <<>>
                  ELSE Strip(TextOf(soup_episode.headline_title)),
     description |-> IF soup_episode.description = NoElem THEN <<>>
                     ELSE CollapseWhitespace(Strip(TextOf(soup_episode.description))),
     iso_date |-> IsoDate(soup_episode.time, now, pads_year)]

\* lines 172-176: final_filename
FinalFilename(meta_iso_date_str, meta_episode_title) ==
    meta_iso_date_str \o <<" ">> \o sanitize_filename_component(meta_episode_title)
        \o <<".", "m", "4", "a">>

(***************************************************************************)
(* The FFMETADATA descriptor (lines 212-229).                              *)
(***************************************************************************)
\* str.replace(old, new) for a one-character old and a string new
RECURSIVE ReplaceWith(_, _, _)
ReplaceWith(s, old, new) ==
    IF s = <<>> THEN <<>>
    ELSE (IF s[1] = old THEN new ELSE <<s[1]>>) \o ReplaceWith(Tail(s), old, new)

\* an escaping that doubles the backslashes last, those of its own escapes included
EscapeBackslashLast(text) ==
    ReplaceWith(
        ReplaceWith(
            ReplaceWith(
                ReplaceWith(text, Newline, <<Backslash, "n">>),
                CarriageReturn, <<Backslash, "r">>),
            "=", <<Backslash, "=">>),
        Backslash, <<Backslash, Backslash>>)

\* an escaping that leaves line feeds as they are
EscapeNoNewline(text) ==
    ReplaceWith(
        ReplaceWith(
            ReplaceWith(text, Backslash, <<Backslash, Backslash>>),
            CarriageReturn, <<Backslash, "r">>),
        "=", <<Backslash, "=">>)

\* lines 212-214
escape_for_ffmetadata(text) ==
    ReplaceWith(
        ReplaceWith(
            ReplaceWith(
                ReplaceWith(text, Backslash, <<Backslash, Backslash>>),
                Newline, <<Backslash, "n">>),
            CarriageReturn, <<Backslash, "r">>),
        "=", <<Backslash, "=">>)

\* "\n".join(lines)
RECURSIVE JoinLines(_)
JoinLines(lines) ==
    IF lines = <<>> THEN <<>>
    ELSE IF Len(lines) = 1 THEN lines[1]
    ELSE lines[1] \o <<Newline>> \o JoinLines(Tail(lines))

ShowName == <<"K", "l", "a", "s", "s", "i", "k", ",", " ", "P", "o", "p", " ", "e", "t", " ", "c", "e", "t", "e", "r", "a">>

\* lines 216-226
ffmetadata_content(meta, episode_url) ==
    << <<";", "F", "F", "M", "E", "T", "A", "D", "A", "T", "A", "1">>,
       <<"a", "l", "b", "u", "m", "=">> \o ShowName,
       <<"a", "r", "t", "i", "s", "t", "=", "D", "e", "u", "t", "s", "c", "h", "l", "a", "n", "d", "f", "u", "n", "k">>,
       <<"t", "i", "t", "l", "e", "=">> \o escape_for_ffmetadata(meta.title),
       <<"d", "e", "s", "c", "r", "i", "p", "t", "i", "o", "n", "=">> \o escape_for_ffmetadata(meta.subtitle),
       <<"c", "o", "m", "m", "e", "n", "t", "=">> \o escape_for_ffmetadata(meta.description),
       <<"d", "a", "t", "e", "=">> \o escape_for_ffmetadata(meta.iso_date),
       <<"c", "o", "p", "y", "r", "i", "g", "h", "t", "=">> \o escape_for_ffmetadata(episode_url),
       <<"s", "h", "o", "w", "=">> \o ShowName >>

(***************************************************************************)
(* Files.  A directory is a set of entries [name, content]; a content      *)
(* records the kind of data the file holds, the run that wrote it and, for *)
(* a text file, its text.                                                  *)
(***************************************************************************)
File(kind, by, text) == [kind |-> kind, by |-> by, text |-> text]

\* os.path.exists(os.path.join(dir, name))
PathExists(dir, name) == \E f \in dir : f.name = name

ContentOf(dir, name) == (CHOOSE f \in dir : f.name = name).content

\* create the file, or replace what is there
WriteFile(dir, name, content) ==
    {f \in dir : f.name # name} \cup {[name |-> name, content |-> content]}

RemoveFile(dir, name) == {f \in dir : f.name # name}

\* lines 190-192: the three files of the scratch workspace
temp_download_path_m4a == "downloaded_audio_temp.m4a"

temp_metadata_filepath == "metadata.txt"

temp_tagged_output_path_m4a == "tagged_audio_temp.m4a"

\* no temporary directory
NoTempDir == [exists |-> FALSE, files |-> {}]

\* line 74: tempfile.TemporaryDirectory(), on entering the with block
NewTempDir == [exists |-> TRUE, files |-> {}]

\* line 74, leaving the with block without removing anything
KeepTempDir(temp) == temp

\* line 74: leaving the with block (normally, or by the SystemExit that
\* sys.exit raises) removes the directory and all it holds
TemporaryDirectoryExit(temp) == NoTempDir

(***************************************************************************)
(* Inputs of the pipeline runs: what the two GETs can return.              *)
(***************************************************************************)
HrefRootRelative == <<"/", "e">>
HrefProtocolRelative == <<"/", "/", "h", "/", "e">>
HrefAbsolute == <<"h", "t", "t", "p", "s", ":", "/", "/", "h", "/", "e">>
HrefPathRelative == <<"e">>

ListingPages ==
    { <<Teaser, Anchor(HrefRootRelative), EndArticle>>,
      <<Teaser, Anchor(HrefProtocolRelative), EndArticle>>,
      <<Teaser, Anchor(HrefAbsolute), EndArticle>>,
      <<Teaser, Anchor(HrefPathRelative), EndArticle>>,
      <<TeaserIdFirst, AnchorClassFirst(HrefRootRelative), EndArticle>>,
      <<OtherArticle, Anchor(HrefRootRelative), EndArticle>> }

EpisodePages ==
    { Page(Elem(<<" ", "A", "/", "B", " ">>), Elem(<<"S", "=", "1">>), Elem(<<"x", " ", " ", "y">>), Elem(<<"1", "5", ".", "0", "3", ".", "2", "0", "2", "4">>)),
      Page(Elem(<<"A", "?", "B">>), NoElem, NoElem, Elem(<<"3", "1", ".", "0", "2", ".", "2", "0", "2", "4">>)),
      Page(NoElem, NoElem, NoElem, NoElem) }

NoPage == Page(NoElem, NoElem, NoElem, NoElem)

NoMeta == [title |-> <<>>, subtitle |-> <<>>, description |-> <<>>, iso_date |-> <<>>]

\* the clock reading of the first state
StartDate == [d |-> 31, m |-> 12, y |-> 2024]

(***************************************************************************)
(* State.                                                                  *)
(***************************************************************************)
VARIABLES
    pc,                    \* where the current run stands
    run,                   \* number of runs started so far
    today,                 \* the date datetime.now() returns
    days,                  \* days elapsed since the first state
    pads_year,             \* whether this build's strftime zero-fills %Y
    target_dir,            \* the files of TARGET_DIR_CONTAINER
    temp_dir,              \* the run's temporary directory
    main_page_html,
    relative_episode_url,
    episode_url,
    soup_episode,
    meta,                  \* meta_episode_title, ..., meta_iso_date_str
    final_filename,
    exit_code,
    log,                   \* the operations of the current run, in order
    start_dir,             \* target_dir when the current run started
    prev,                  \* summary of the run before the current one
    tool_result,           \* what the tool invoked last in the current run did
    link_strategy,         \* the extraction that spoke last in the current run
    fn_in,                 \* input of a function under test
    fn_out                 \* its result

env == <<today, days, pads_year>>
locals == <<main_page_html, relative_episode_url, episode_url, soup_episode, meta, final_filename>>
history == <<start_dir, prev, tool_result, link_strategy>>
fn == <<fn_in, fn_out>>
vars == <<pc, run, env, target_dir, temp_dir, locals, exit_code, log, history, fn>>

Entry(op, result) == [op |-> op, result |-> result]

\* the (success, output) of run_external_command and the os.path.exists on
\* the tool's output file
ToolResult(success, output_exists) ==
    [invoked |-> TRUE, success |-> success, output_exists |-> output_exists]

NoToolResult == [invoked |-> FALSE, success |-> FALSE, output_exists |-> FALSE]

NoPrev ==
    [valid |-> FALSE, exit_code |-> 0, log |-> <<>>, final_filename |-> <<>>,
     meta |-> NoMeta, main_page_html |-> <<>>, soup_episode |-> NoPage,
     absent_at_start |-> FALSE]

\* what is kept of the run that just ended
Summary ==
    [valid |-> TRUE, exit_code |-> exit_code, log |-> log,
     final_filename |-> final_filename, meta |-> meta,
     main_page_html |-> main_page_html, soup_episode |-> soup_episode,
     absent_at_start |-> ~PathExists(start_dir, final_filename)]

\* no run has started
NoRun ==
    /\ run = 0
    /\ today = StartDate
    /\ days = 0
    /\ target_dir = {}
    /\ temp_dir = NoTempDir
    /\ main_page_html = <<>>
    /\ relative_episode_url = <<>>
    /\ episode_url = <<>>
    /\ soup_episode = NoPage
    /\ meta = NoMeta
    /\ final_filename = <<>>
    /\ exit_code = 0
    /\ log = <<>>
    /\ start_dir = {}
    /\ prev = NoPrev
    /\ tool_result = NoToolResult
    /\ link_strategy = "none"

Init ==
    /\ pc = "NotStarted"
    /\ pads_year \in BOOLEAN
    /\ NoRun
    /\ fn_in = <<>>
    /\ fn_out = <<>>

\* sys.exit(code) inside the with block: SystemExit unwinds through it
Exit(code, temp) ==
    /\ pc' = "Exited"
    /\ exit_code' = code
    /\ temp_dir' = TemporaryDirectoryExit(temp)

(***************************************************************************)
(* The pipeline, one action per numbered step of main().                   *)
(***************************************************************************)
\* A new process runs main(): lines 61-75, os.makedirs and the creation of
\* the temporary directory.
StartRun ==
    /\ pc \in {"NotStarted", "Exited"}
    /\ run < MaxRuns
    /\ run' = run + 1
    /\ prev' = IF pc = "Exited" THEN Summary ELSE prev
    /\ start_dir' = target_dir
    /\ tool_result' = NoToolResult
    /\ link_strategy' = "none"
    /\ main_page_html' = <<>>
    /\ relative_episode_url' = <<>>
    /\ episode_url' = <<>>
    /\ soup_episode' = NoPage
    /\ meta' = NoMeta
    /\ final_filename' = <<>>
    /\ \E made \in BOOLEAN :
         IF made
         THEN /\ log' = <<Entry("makedirs", "ok")>>
              /\ temp_dir' = NewTempDir
              /\ pc' = "FetchMainPage"
              /\ exit_code' = 0
         ELSE /\ log' = <<Entry("makedirs", "failed")>>
              /\ temp_dir' = NoTempDir
              /\ pc' = "Exited"
              /\ exit_code' = 1
    /\ UNCHANGED <<env, target_dir, fn>>

\* lines 77-85
FetchMainPage ==
    /\ pc = "FetchMainPage"
    /\ \/ \E html \in ListingPages :
            /\ main_page_html' = html
            /\ log' = Append(log, Entry("get", "ok"))
            /\ pc' = "FindEpisodeLink"
            /\ UNCHANGED <<exit_code, temp_dir>>
       \/ /\ log' = Append(log, Entry("get", "failed"))
          /\ Exit(1, temp_dir)
          /\ UNCHANGED main_page_html
    /\ UNCHANGED <<run, env, target_dir, relative_episode_url, episode_url,
                   soup_episode, meta, final_filename, history, fn>>

\* lines 87-117: the fallback of lines 93-104 runs when the re.search of
\* line 88 returned no match
FindEpisodeLink ==
    /\ pc = "FindEpisodeLink"
    /\ link_strategy' = IF RegexAnchorPos(main_page_html) # 0 THEN "regex" ELSE "soup"
    /\ LET found == ExtractHref(main_page_html)
       IN  IF found = NoElem
           THEN /\ log' = Append(log, Entry("find_link", "failed"))
                /\ Exit(1, temp_dir)
                /\ UNCHANGED <<relative_episode_url, episode_url>>
           ELSE /\ relative_episode_url' = TextOf(found)
                /\ episode_url' = ResolveUrl(TextOf(found))
                /\ log' = Append(log, Entry("find_link", "ok"))
                /\ pc' = "FetchEpisodePage"
                /\ UNCHANGED <<exit_code, temp_dir>>
    /\ UNCHANGED <<run, env, target_dir, main_page_html, soup_episode, meta,
                   final_filename, start_dir, prev, tool_result, fn>>

\* lines 119-128; requests.get raises MissingSchema, a RequestException,
\* for a URL without a scheme
FetchEpisodePage ==
    /\ pc = "FetchEpisodePage"
    /\ \/ /\ IsAbsoluteUrl(episode_url)
          /\ \E page \in EpisodePages :
               /\ soup_episode' = page
               /\ log' = Append(log, Entry("get", "ok"))
               /\ pc' = "ExtractMetadata"
               /\ UNCHANGED <<exit_code, temp_dir>>
       \/ /\ log' = Append(log, Entry("get", "failed"))
          /\ Exit(1, temp_dir)
          /\ UNCHANGED soup_episode
    /\ UNCHANGED <<run, env, target_dir, main_page_html, relative_episode_url,
                   episode_url, meta, final_filename, history, fn>>

\* lines 130-179: the metadata, then the file name; an exception raised
\* while reading the parsed page ends the run (lines 168-170)
ExtractMetadata ==
    /\ pc = "ExtractMetadata"
    /\ \/ LET m == Metadata(soup_episode, today, pads_year)
          IN  /\ meta' = m
              /\ final_filename' = FinalFilename(m.iso_date, m.title)
              /\ log' = Append(log, Entry("metadata", "ok"))
              /\ pc' = "CheckTargetExists"
              /\ UNCHANGED <<exit_code, temp_dir>>
       \/ /\ log' = Append(log, Entry("metadata", "failed"))
          /\ Exit(1, temp_dir)
          /\ UNCHANGED <<meta, final_filename>>
    /\ UNCHANGED <<run, env, target_dir, main_page_html, relative_episode_url,
                   episode_url, soup_episode, history, fn>>

\* line 183, never finding the file
NeverPublished(dir, name) == FALSE

\* line 183
AlreadyPublished(dir, name) == PathExists(dir, name)

\* lines 181-187
CheckTargetExists ==
    /\ pc = "CheckTargetExists"
    /\ IF AlreadyPublished(target_dir, final_filename)
       THEN /\ log' = Append(log, Entry("exists", "found"))
            /\ Exit(0, temp_dir)
       ELSE /\ log' = Append(log, Entry("exists", "absent"))
            /\ pc' = "Download"
            /\ UNCHANGED <<exit_code, temp_dir>>
    /\ UNCHANGED <<run, env, target_dir, locals, history, fn>>

\* lines 202 and 251 with the condition replaced by False
ToolNeverFailed(success, output_exists) == FALSE

\* lines 202 and 251 with the exit status as the only criterion
ToolFailedStatusOnly(success, output_exists) == ~success

\* lines 202 and 251: not success or not os.path.exists(output)
ToolFailed(success, output_exists) == ~success \/ ~output_exists

\* lines 194-205: yt-dlp exits 0 or not (or cannot be started), and has
\* written its output file or not
Download ==
    /\ pc = "Download"
    /\ \E success \in BOOLEAN, written \in BOOLEAN :
         LET files == IF written
                      THEN WriteFile(temp_dir.files, temp_download_path_m4a,
                                     File("audio", run, <<>>))
                      ELSE temp_dir.files
             temp == [temp_dir EXCEPT !.files = files]
         IN  /\ tool_result' = ToolResult(success, PathExists(files, temp_download_path_m4a))
             /\ IF ToolFailed(success, PathExists(files, temp_download_path_m4a))
                THEN /\ log' = Append(log, Entry(YT_DLP_EXECUTABLE, "failed"))
                     /\ Exit(1, temp)
                ELSE /\ log' = Append(log, Entry(YT_DLP_EXECUTABLE, "ok"))
                     /\ temp_dir' = temp
                     /\ pc' = "WriteMetadata"
                     /\ UNCHANGED exit_code
    /\ UNCHANGED <<run, env, target_dir, locals, start_dir, prev, link_strategy, fn>>

\* lines 207-233
WriteMetadata ==
    /\ pc = "WriteMetadata"
    /\ \/ /\ temp_dir' = [temp_dir EXCEPT !.files =
                 WriteFile(@, temp_metadata_filepath,
                           File("descriptor", run,
                                JoinLines(ffmetadata_content(meta, episode_url))))]
          /\ log' = Append(log, Entry("write_metadata", "ok"))
          /\ pc' = "Tag"
          /\ UNCHANGED exit_code
       \/ /\ log' = Append(log, Entry("write_metadata", "failed"))
          /\ Exit(1, temp_dir)
    /\ UNCHANGED <<run, env, target_dir, locals, history, fn>>

\* lines 235-253: ffmpeg exits 0 or not, and has written the tagged file
\* (the audio with the descriptor's tags) or not
Tag ==
    /\ pc = "Tag"
    /\ \E success \in BOOLEAN, written \in BOOLEAN :
         LET files == IF written
                      THEN WriteFile(temp_dir.files, temp_tagged_output_path_m4a,
                                     File("tagged", run, <<>>))
                      ELSE temp_dir.files
             temp == [temp_dir EXCEPT !.files = files]
         IN  /\ tool_result' = ToolResult(success, PathExists(files, temp_tagged_output_path_m4a))
             /\ IF ToolFailed(success, PathExists(files, temp_tagged_output_path_m4a))
                THEN /\ log' = Append(log, Entry(FFMPEG_EXECUTABLE, "failed"))
                     /\ Exit(1, temp)
                ELSE /\ log' = Append(log, Entry(FFMPEG_EXECUTABLE, "ok"))
                     /\ temp_dir' = temp
                     /\ pc' = "Move"
                     /\ UNCHANGED exit_code
    /\ UNCHANGED <<run, env, target_dir, locals, start_dir, prev, link_strategy, fn>>

\* what shutil.move(src, dst) can do.  os.rename puts the source in place of
\* the destination; when the two are on different file systems it raises
\* and shutil copies the file (copy2) and then unlinks the source.
\*   "moved"    renamed, or copied and unlinked
\*   "refused"  neither the rename nor the creation of dst was possible
\*   "partial"  the copy broke off: dst holds a part of the data
\*   "copied"   the data was copied, then copystat or the unlink raised
MoveOutcomes == {"moved", "refused", "partial", "copied"}

\* shutil.move reporting success without the file arriving at dst
MoveTargetLosesFile(outcome, dir, dst, content) == dir

\* the destination directory after shutil.move
MoveTarget(outcome, dir, dst, content) ==
    CASE outcome = "moved" -> WriteFile(dir, dst, content)
      [] outcome = "copied" -> WriteFile(dir, dst, content)
      [] outcome = "partial" -> WriteFile(dir, dst, [content EXCEPT !.kind = "partial"])
      [] outcome = "refused" -> dir

\* the source directory after shutil.move
MoveSource(outcome, files, src) ==
    IF outcome = "moved" THEN RemoveFile(files, src) ELSE files

\* lines 257-269, with the exception swallowed
MoveExitCodeIgnoresError(outcome) == 0

\* lines 257-269: sys.exit(1) in the except branch, sys.exit(0) after the
\* with block
MoveExitCode(outcome) == IF outcome = "moved" THEN 0 ELSE 1

\* lines 255-269
Move ==
    /\ pc = "Move"
    /\ \E outcome \in MoveOutcomes :
         LET tagged == ContentOf(temp_dir.files, temp_tagged_output_path_m4a)
             temp == [temp_dir EXCEPT !.files =
                         MoveSource(outcome, @, temp_tagged_output_path_m4a)]
         IN  /\ target_dir' = MoveTarget(outcome, target_dir, final_filename, tagged)
             /\ log' = Append(log, Entry("move", IF outcome = "moved" THEN "ok" ELSE "failed"))
             /\ Exit(MoveExitCode(outcome), temp)
    /\ UNCHANGED <<run, env, locals, history, fn>>

\* Midnight passes.  A run reads the clock once (ExtractMetadata), so the
\* days that matter are the ones between two runs.
Tick ==
    /\ pc \in {"NotStarted", "Exited"}
    /\ days < MaxDays
    /\ days' = days + 1
    /\ today' = NextDay(today)
    /\ UNCHANGED <<pc, run, pads_year, target_dir, temp_dir, locals, exit_code,
                   log, history, fn>>

Next ==
    \/ StartRun
    \/ FetchMainPage
    \/ FindEpisodeLink
    \/ FetchEpisodePage
    \/ ExtractMetadata
    \/ CheckTargetExists
    \/ Download
    \/ WriteMetadata
    \/ Tag
    \/ Move
    \/ Tick

Spec == Init /\ [][Next]_vars

(***************************************************************************)
(* The same program with a second process publishing into the target       *)
(* directory while a run is between its existence check and its move.      *)
(***************************************************************************)
\* lines 255-259 of a concurrent run for the same episode: its tagged file
\* arrives at final_filename
ConcurrentPublish ==
    /\ pc \in {"Download", "WriteMetadata", "Tag", "Move"}
    /\ ~PathExists(target_dir, final_filename)
    /\ target_dir' = WriteFile(target_dir, final_filename, File("tagged", 0, <<>>))
    /\ UNCHANGED <<pc, run, env, temp_dir, locals, exit_code, log, history, fn>>

NextRace ==
    \/ Next
    \/ ConcurrentPublish

SpecRace == Init /\ [][NextRace]_vars

(***************************************************************************)
(* sanitize_filename_component and the file name, over all strings up to   *)
(* MaxLen of an alphabet that holds every character the function treats    *)
(* specially.                                                              *)
(***************************************************************************)
SanitizeAlphabet ==
    {Backslash, "/", "*", "?", ":", Quote, "<", ">", "|", Newline, CarriageReturn, " ", "a"}

SanitizeInit ==
    /\ pc = "SanitizeIn"
    /\ pads_year = TRUE
    /\ NoRun
    /\ fn_in \in StringsUpTo(SanitizeAlphabet, MaxLen)
    /\ fn_out = [safe |-> <<>>, final_filename |-> <<>>]

\* lines 172-176 on the title fn_in
ApplySanitize ==
    /\ pc = "SanitizeIn"
    /\ pc' = "SanitizeOut"
    /\ fn_out' = [safe |-> sanitize_filename_component(fn_in),
                  final_filename |-> FinalFilename(Strftime(today, pads_year), fn_in)]
    /\ UNCHANGED <<run, env, target_dir, temp_dir, locals, exit_code, log, history, fn_in>>

SanitizeNext == ApplySanitize

SpecSanitize == SanitizeInit /\ [][SanitizeNext]_vars

(***************************************************************************)
(* The date of the metadata, over texts of the <time> element.             *)
(***************************************************************************)
DateDays == {<<"0", "0">>, <<"0", "1">>, <<"1", "5">>, <<"2", "8">>, <<"2", "9">>, <<"3", "0">>, <<"3", "1">>, <<"3", "2">>}

DateMonths == {<<"0", "0">>, <<"0", "2">>, <<"0", "3">>, <<"0", "4">>, <<"1", "2">>, <<"1", "3">>}

DateYears == {<<"0", "0", "0", "0">>, <<"0", "0", "0", "1">>, <<"0", "9", "9", "9">>, <<"1", "9", "0", "0">>, <<"2", "0", "0", "0">>, <<"2", "0", "2", "3">>, <<"2", "0", "2", "4">>}

DateTexts ==
    {pre \o dd \o <<".">> \o mm \o <<".">> \o yyyy \o suf :
        pre \in {<<>>, <<"1">>, <<" ", "v", "o", "m", " ">>}, dd \in DateDays, mm \in DateMonths,
        yyyy \in DateYears, suf \in {<<>>, <<"5">>}}
    \cup { <<>>, <<"1", ".", "1", ".", "2", "0", "2", "3">>, <<"1", "5", "-", "0", "3", "-", "2", "0", "2", "4">>, <<"1", "5", ".", "0", "3", ".", "2", "4">>,
           <<"3", "1", ".", "0", "2", ".", "2", "0", "2", "4", " ", "1", "5", ".", "0", "3", ".", "2", "0", "2", "4">>, <<"0", "1", ".", "0", "1", ".", "2", "0", "2", "3", ",", " ", "1", "5", ".", "0", "3", ".", "2", "0", "2", "4">> }

TimeElements == {NoElem} \cup {Elem(s) : s \in DateTexts}

DateInit ==
    /\ pc = "DateIn"
    /\ pads_year \in BOOLEAN
    /\ NoRun
    /\ fn_in \in TimeElements
    /\ fn_out = <<>>

\* lines 146-160 on the <time> element fn_in
ApplyIsoDate ==
    /\ pc = "DateIn"
    /\ pc' = "DateOut"
    /\ fn_out' = IsoDate(fn_in, today, pads_year)
    /\ UNCHANGED <<run, env, target_dir, temp_dir, locals, exit_code, log, history, fn_in>>

DateNext == ApplyIsoDate

SpecDate == DateInit /\ [][DateNext]_vars

(***************************************************************************)
(* escape_for_ffmetadata and the reverse mapping of the round trip, over   *)
(* all strings up to MaxLen of an alphabet that holds every character the  *)
(* escaping treats specially and the letters its escapes end in.           *)
(***************************************************************************)
\* str.replace(old, new) for a two-character old and a one-character new:
\* the occurrences are found from the left and do not overlap
RECURSIVE ReplacePair(_, _, _)
ReplacePair(s, old, new) ==
    IF Len(s) < 2 THEN s
    ELSE IF <<s[1], s[2]>> = old THEN <<new>> \o ReplacePair(Tail(Tail(s)), old, new)
    ELSE <<s[1]>> \o ReplacePair(Tail(s), old, new)

\* the reverse mapping: the four replacements of lines 213-214 inverted and
\* applied in the opposite order
Unescape(text) ==
    ReplacePair(
        ReplacePair(
            ReplacePair(
                ReplacePair(text, <<Backslash, "=">>, "="),
                <<Backslash, "r">>, CarriageReturn),
            <<Backslash, "n">>, Newline),
        <<Backslash, Backslash>>, Backslash)

EscapeAlphabet == {Backslash, "=", Newline, CarriageReturn, "n", "r"}

EscapeInit ==
    /\ pc = "EscapeIn"
    /\ pads_year = TRUE
    /\ NoRun
    /\ fn_in \in StringsUpTo(EscapeAlphabet, MaxLen)
    /\ fn_out = [escaped |-> <<>>, unescaped |-> <<>>]

\* lines 212-214 on the text fn_in, then the reverse mapping on the result
ApplyEscape ==
    /\ pc = "EscapeIn"
    /\ pc' = "EscapeOut"
    /\ fn_out' = [escaped |-> escape_for_ffmetadata(fn_in),
                  unescaped |-> Unescape(escape_for_ffmetadata(fn_in))]
    /\ UNCHANGED <<run, env, target_dir, temp_dir, locals, exit_code, log, history, fn_in>>

EscapeNext == ApplyEscape

SpecEscape == EscapeInit /\ [][EscapeNext]_vars

(***************************************************************************)
(* The link extraction and the episode fetch (lines 87-128) of a run that  *)
(* has fetched its listing page, over all listing pages of up to MaxTags   *)
(* tags.                                                                   *)
(***************************************************************************)
MaxTags == 4

HrefOther == <<"/", "f">>

MarkupTags ==
    {Teaser, TeaserIdFirst, TeaserWide, OtherArticle, EndArticle,
     Anchor(HrefRootRelative), Anchor(HrefOther), Anchor(<<>>),
     AnchorClassFirst(HrefOther), AnchorNoHref}

LinkInit ==
    /\ pc = "FindEpisodeLink"
    /\ pads_year = TRUE
    /\ run = 1
    /\ today = StartDate
    /\ days = 0
    /\ target_dir = {}
    /\ temp_dir = NewTempDir
    /\ main_page_html \in StringsUpTo(MarkupTags, MaxTags)
    /\ relative_episode_url = <<>>
    /\ episode_url = <<>>
    /\ soup_episode = NoPage
    /\ meta = NoMeta
    /\ final_filename = <<>>
    /\ exit_code = 0
    /\ log = <<Entry("makedirs", "ok"), Entry("get", "ok")>>
    /\ start_dir = {}
    /\ prev = NoPrev
    /\ tool_result = NoToolResult
    /\ link_strategy = "none"
    /\ fn_in = <<>>
    /\ fn_out = <<>>

LinkNext ==
    \/ FindEpisodeLink
    \/ FetchEpisodePage

SpecLink == LinkInit /\ [][LinkNext]_vars

(***************************************************************************)
(* The descriptor write (lines 207-233) of a run that has extracted its    *)
(* metadata, found its target path absent and downloaded the audio, over   *)
(* episode pages one of whose three texts is any string up to MaxLen of    *)
(* the characters the escaping treats specially.                           *)
(***************************************************************************)
DescriptorAlphabet == {Backslash, "=", Newline, CarriageReturn, "a"}

\* the texts of the two other elements
DescriptorTexts == {NoElem, Elem(<<"=">>), Elem(<<"a", Newline, "b">>)}

DescriptorPages ==
    LET free == {Elem(s) : s \in StringsUpTo(DescriptorAlphabet, MaxLen)}
        time == Elem(<<"1", "5", ".", "0", "3", ".", "2", "0", "2", "4">>)
    IN  {Page(x, o1, o2, time) : x \in free, o1 \in DescriptorTexts, o2 \in DescriptorTexts}
        \cup {Page(o1, x, o2, time) : x \in free, o1 \in DescriptorTexts, o2 \in DescriptorTexts}
        \cup {Page(o1, o2, x, time) : x \in free, o1 \in DescriptorTexts, o2 \in DescriptorTexts}

HrefWithQuery == <<"h", "t", "t", "p", "s", ":", "/", "/", "h", "/", "e", "?", "q", "=", "1">>

DescriptorInit ==
    /\ pc = "WriteMetadata"
    /\ pads_year = TRUE
    /\ run = 1
    /\ today = StartDate
    /\ days = 0
    /\ target_dir = {}
    /\ temp_dir = [NewTempDir EXCEPT !.files =
                      WriteFile(@, temp_download_path_m4a, File("audio", 1, <<>>))]
    /\ relative_episode_url \in {HrefRootRelative, HrefWithQuery}
    /\ main_page_html = <<Teaser, Anchor(relative_episode_url), EndArticle>>
    /\ episode_url = ResolveUrl(relative_episode_url)
    /\ soup_episode \in DescriptorPages
    /\ meta = Metadata(soup_episode, today, pads_year)
    /\ final_filename = FinalFilename(meta.iso_date, meta.title)
    /\ exit_code = 0
    /\ log = <<Entry("makedirs", "ok"), Entry("get", "ok"), Entry("find_link", "ok"),
               Entry("get", "ok"), Entry("metadata", "ok"), Entry("exists", "absent"),
               Entry(YT_DLP_EXECUTABLE, "ok")>>
    /\ start_dir = {}
    /\ prev = NoPrev
    /\ tool_result = ToolResult(TRUE, TRUE)
    /\ link_strategy = "regex"
    /\ fn_in = <<>>
    /\ fn_out = <<>>

DescriptorNext == WriteMetadata

SpecDescriptor == DescriptorInit /\ [][DescriptorNext]_vars

(***************************************************************************)
(* The (isoDate, showTitle) and the file name (lines 133-176) of two       *)
(* episode pages, over all kicker texts up to MaxLen of a small alphabet   *)
(* and two dates.                                                          *)
(***************************************************************************)
FilenameAlphabet == {"/", "?", "a"}

FilenameEpisodes ==
    {Page(Elem(t), NoElem, NoElem, Elem(time)) :
        t \in StringsUpTo(FilenameAlphabet, MaxLen),
        time \in {<<"1", "5", ".", "0", "3", ".", "2", "0", "2", "4">>, <<"1", "6", ".", "0", "3", ".", "2", "0", "2", "4">>}}

\* lines 133-176 for one page
TargetOf(page, now, pads) ==
    LET m == Metadata(page, now, pads)
    IN  [iso_date |-> m.iso_date, title |-> m.title,
         final_filename |-> FinalFilename(m.iso_date, m.title)]

FilenameInit ==
    /\ pc = "FilenameIn"
    /\ pads_year = TRUE
    /\ NoRun
    /\ fn_in \in [a : FilenameEpisodes, b : FilenameEpisodes]
    /\ fn_out = <<>>

ApplyFilename ==
    /\ pc = "FilenameIn"
    /\ pc' = "FilenameOut"
    /\ fn_out' = [a |-> TargetOf(fn_in.a, today, pads_year),
                  b |-> TargetOf(fn_in.b, today, pads_year)]
    /\ UNCHANGED <<run, env, target_dir, temp_dir, locals, exit_code, log, history, fn_in>>

FilenameNext == ApplyFilename

SpecFilename == FilenameInit /\ [][FilenameNext]_vars

(***************************************************************************)
(* Properties.                                                             *)
(***************************************************************************)
Last(l) == l[Len(l)]

CountOp(l, op) == Cardinality({i \in 1..Len(l) : l[i].op = op})

HasEntry(l, e) == \E i \in 1..Len(l) : l[i] = e

\* the run reached the computation of its metadata and file name
Computed(l) == HasEntry(l, Entry("metadata", "ok"))

\* the current run has ended, the run before it went through every stage
\* and published, starting without a file at its target path, and the
\* current run computed the same (isoDate, showTitle)
SecondRunOfSameEpisode ==
    /\ pc = "Exited"
    /\ prev.valid
    /\ prev.absent_at_start
    /\ prev.exit_code = 0
    /\ Last(prev.log) = Entry("move", "ok")
    /\ Computed(log)
    /\ meta.iso_date = prev.meta.iso_date
    /\ meta.title = prev.meta.title

\* C1: of two consecutive runs that compute the same (isoDate, showTitle),
\* the first starting without a file at the target path and succeeding in
\* every stage, the second makes exactly the two page fetches, invokes
\* neither yt-dlp nor ffmpeg and exits 0; afterwards the target path holds
\* exactly one artifact, the one the first run published, and one move was
\* made in the two runs together.
C1_SecondRunSkips ==
    SecondRunOfSameEpisode =>
        /\ exit_code = 0
        /\ CountOp(log, "get") = 2
        /\ CountOp(log, YT_DLP_EXECUTABLE) = 0
        /\ CountOp(log, FFMPEG_EXECUTABLE) = 0
        /\ CountOp(log, "move") + CountOp(prev.log, "move") = 1
        /\ final_filename = prev.final_filename
        /\ {f \in target_dir : f.name = final_filename}
             = {[name |-> final_filename, content |-> File("tagged", run - 1, <<>>)]}

C1_Witness == SecondRunOfSameEpisode /\ days > 0

\* C2: the existence check comes after the metadata extraction and before
\* any invocation of yt-dlp, and it reports what the target directory
\* holds; when it finds the file it is the last operation of the run, which
\* has exit code 0, has invoked no tool, has created no file in its
\* temporary directory and has left the file at the target path as it was.
C2_ExistenceCheckShortCircuits ==
    /\ \A i \in 1..Len(log) :
         log[i].op = "exists" =>
            /\ \E j \in 1..(i - 1) : log[j] = Entry("metadata", "ok")
            /\ \A j \in 1..(i - 1) : log[j].op # YT_DLP_EXECUTABLE
            /\ (log[i].result = "found") = PathExists(start_dir, final_filename)
    /\ \A i \in 1..Len(log) :
         log[i].op = YT_DLP_EXECUTABLE =>
            \E j \in 1..(i - 1) : log[j] = Entry("exists", "absent")
    /\ \A i \in 1..Len(log) :
         log[i] = Entry("exists", "found") =>
            /\ i = Len(log)
            /\ pc = "Exited"
            /\ exit_code = 0
            /\ temp_dir.files = {}
            /\ \A j \in 1..Len(log) :
                 log[j].op \notin {YT_DLP_EXECUTABLE, FFMPEG_EXECUTABLE,
                                   "write_metadata", "move"}
            /\ CountOp(log, "get") = 2
            /\ target_dir = start_dir

C2_Witness ==
    /\ pc = "Exited"
    /\ Len(log) > 0
    /\ Last(log) = Entry("exists", "found")

\* C5: when a run has ended, on any exit path, its temporary directory and
\* every file in it are gone.
C5_ScratchRemoved ==
    pc = "Exited" => /\ ~temp_dir.exists
                     /\ temp_dir.files = {}

\* a run has ended at a failed move, after its three scratch files existed
C5_Witness ==
    /\ pc = "Exited"
    /\ Len(log) > 0
    /\ Last(log) = Entry("move", "failed")
    /\ HasEntry(log, Entry(FFMPEG_EXECUTABLE, "ok"))
    /\ ~temp_dir.exists

\* the run moved its tagged file to the target path
Published ==
    /\ Last(log) = Entry("move", "ok")
    /\ PathExists(target_dir, final_filename)
    /\ ContentOf(target_dir, final_filename) = File("tagged", run, <<>>)

\* the run ended at the existence check
Skipped == Last(log) = Entry("exists", "found")

\* some stage of the run failed
SomeStageFailed ==
    \E i \in 1..Len(log) :
        /\ log[i].result = "failed"
        /\ log[i].op \in {"makedirs", "get", "find_link", "metadata", YT_DLP_EXECUTABLE,
                          "write_metadata", FFMPEG_EXECUTABLE, "move"}

\* C6: a run that has ended has exit code 0 or 1; 0 exactly when it
\* published its tagged file or skipped at the existence check, 1 exactly
\* when one of its stages failed.
C6_ExitCodes ==
    pc = "Exited" =>
        /\ exit_code \in {0, 1}
        /\ (exit_code = 0) = (Published \/ Skipped)
        /\ (exit_code = 1) = SomeStageFailed

C6_Witness ==
    /\ pc = "Exited"
    /\ exit_code = 1
    /\ Last(log) = Entry("move", "failed")
    /\ PathExists(target_dir, final_filename)

\* C3: a file that is present in the target directory is never replaced or
\* modified by a step, including the move of a run whose existence check
\* found the target path absent and at whose target path a file appeared
\* afterwards.
C3_NeverOverwritten ==
    [][\A f \in target_dir : f \in target_dir']_vars

\* C4: a run that has ended with exit code 1 leaves no file in the target
\* directory that was not there when the run started.
C4_FailedRunLeavesNoFile ==
    (pc = "Exited" /\ exit_code = 1) => \A f \in target_dir : f \in start_dir

\* C7: the URL handed to the episode fetch and to yt-dlp is absolute,
\* whatever href the link extraction captured.
C7_EpisodeUrlAbsolute ==
    pc \in {"FetchEpisodePage", "ExtractMetadata", "CheckTargetExists", "Download"}
        => IsAbsoluteUrl(episode_url)

\* the run before the current one and the current run both computed a file
\* name, from the same listing markup and the same episode markup
SameEpisodeTwice ==
    /\ prev.valid
    /\ Computed(prev.log)
    /\ Computed(log)
    /\ prev.main_page_html = main_page_html
    /\ prev.soup_episode = soup_episode

\* C8 as claimed: two runs on the same listing markup and the same episode
\* markup compute the same target path, whenever they execute and also when
\* the page gives no usable date.
C8_SameTargetPath ==
    SameEpisodeTwice => final_filename = prev.final_filename

\* the text of the first <time> element holds a dd.mm.yyyy whose leftmost
\* occurrence is a date of the calendar
PageDateParses(time_element) ==
    /\ time_element # NoElem
    /\ LET s == Strip(TextOf(time_element))
       IN  /\ DateSearch(s) # 0
           /\ StrptimeOk(SubSeq(s, DateSearch(s), DateSearch(s) + 9))

\* C8, amended: two runs on the same listing markup and the same episode
\* markup compute the same target path, whenever they execute, provided
\* the page's first <time> element holds a parsable date.
C8_SameTargetPathWhenDated ==
    (SameEpisodeTwice /\ PageDateParses(soup_episode.time))
        => final_filename = prev.final_filename

\* two runs on the same dated episode, on different days
C8_Witness ==
    /\ SameEpisodeTwice
    /\ PageDateParses(soup_episode.time)
    /\ pc = "Exited"
    /\ days > 0
    /\ HasEntry(prev.log, Entry("move", "ok"))

\* s has the form yyyy-mm-dd and names a date of the calendar
IsIsoCalendarDate(s) ==
    /\ Len(s) = 10
    /\ \A k \in {1, 2, 3, 4, 6, 7, 9, 10} : s[k] \in Digits
    /\ s[5] = "-"
    /\ s[8] = "-"
    /\ LET y == ToInt(SubSeq(s, 1, 4))
           m == ToInt(SubSeq(s, 6, 7))
           d == ToInt(SubSeq(s, 9, 10))
       IN  /\ y >= 1
           /\ m \in 1..12
           /\ d \in 1..DaysInMonth(y, m)

\* dd.mm.yyyy rearranged to yyyy-mm-dd
Reformatted(g) ==
    SubSeq(g, 7, 10) \o <<"-">> \o SubSeq(g, 4, 5) \o <<"-">> \o SubSeq(g, 1, 2)

\* the current date as yyyy-mm-dd
CurrentIsoDate ==
    ZeroFill(ToDecimal(today.y), 4) \o <<"-">> \o ZeroFill(ToDecimal(today.m), 2)
        \o <<"-">> \o ZeroFill(ToDecimal(today.d), 2)

\* C9: isoDate is a calendar date in the form yyyy-mm-dd: the date of the
\* <time> text reformatted when the text holds a dd.mm.yyyy that is a date
\* of the calendar, the current date otherwise.
C9_IsoDateValid ==
    pc = "DateOut" =>
        /\ IsIsoCalendarDate(fn_out)
        /\ IF PageDateParses(fn_in)
           THEN LET s == Strip(TextOf(fn_in))
                IN  fn_out = Reformatted(SubSeq(s, DateSearch(s), DateSearch(s) + 9))
           ELSE fn_out = CurrentIsoDate

\* C10: the result of sanitize_filename_component holds none of the
\* characters \ / * ? : " < > | nor a newline or carriage return, and the
\* file name built from it holds no path separator.
C10_NoForbiddenCharacter ==
    pc = "SanitizeOut" =>
        /\ \A i \in 1..Len(fn_out.safe) :
             fn_out.safe[i] \notin {Backslash, "/", "*", "?", ":", Quote, "<", ">", "|",
                                    Newline, CarriageReturn}
        /\ \A i \in 1..Len(fn_out.final_filename) :
             fn_out.final_filename[i] \notin {"/", Backslash}

\* a title with a slash, a backslash and a line break has been sanitized
C10_Witness ==
    /\ pc = "SanitizeOut"
    /\ fn_in = <<"/", Backslash, Newline>>
    /\ fn_out.safe = <<"_", "_", "_">>

(***************************************************************************)
(* C11                                                                     *)
(***************************************************************************)
\* the characters sanitize_filename_component turns into an underscore
Underscored == {Backslash, "/", "*", "?", ":", Quote, "<", ">", "|", Newline, CarriageReturn}

\* out is the image of the part of s that starts after its first k
\* characters: every underscored character became "_", every other one
\* stayed, and what was left out before and after is blanks only
ImageFrom(s, out, k) ==
    /\ k + Len(out) <= Len(s)
    /\ \A i \in 1..Len(out) :
         out[i] = IF s[i + k] \in Underscored THEN "_" ELSE s[i + k]
    /\ \A j \in (1..k) \cup ((k + Len(out) + 1)..Len(s)) : s[j] \in {" ", Tab}

\* C11 as stated: for every string s, sanitize_filename_component(s) has
\* the length of s, and each position holds the character of s or, where that
\* character is forbidden or a line break, an underscore.
C11_LengthPreserved ==
    pc = "SanitizeOut" =>
        /\ Len(fn_out.safe) = Len(fn_in)
        /\ \A i \in 1..Len(fn_out.safe) :
             fn_out.safe[i] = IF fn_in[i] \in Underscored THEN "_" ELSE fn_in[i]

\* C11 amended: sanitize_filename_component(s) is the position-by-position
\* image of s with the blanks around it removed; it has the length of s
\* whenever s neither begins nor ends with a blank.
C11_LengthPreservedUpToStrip ==
    pc = "SanitizeOut" =>
        /\ \E k \in 0..Len(fn_in) : ImageFrom(fn_in, fn_out.safe, k)
        /\ (fn_in = <<>> \/ (fn_in[1] \notin {" ", Tab} /\ fn_in[Len(fn_in)] \notin {" ", Tab}))
             => Len(fn_out.safe) = Len(fn_in)

\* a title that begins with a blank, then a slash: the blank is gone and the
\* slash has become an underscore one position further left
C11_Witness ==
    /\ pc = "SanitizeOut"
    /\ fn_in = <<" ", "/", "a">>
    /\ fn_out.safe = <<"_", "a">>

(***************************************************************************)
(* C12                                                                     *)
(***************************************************************************)
\* C12 as stated: for every string s over an alphabet that holds the
\* backslash, "=", the line feed, the carriage return and the letters n and
\* r, the reverse mapping applied to escape_for_ffmetadata(s) gives s.
C12_RoundTrip ==
    pc = "EscapeOut" => fn_out.unescaped = fn_in

\* s holds a backslash directly followed by the letter n or r
BackslashBeforeLetter(s) ==
    \E i \in 1..(Len(s) - 1) : s[i] = Backslash /\ s[i + 1] \in {"n", "r"}

\* C12 amended: the reverse mapping applied to escape_for_ffmetadata(s)
\* gives s for every such s in which no backslash is directly followed by
\* the letter n or r.
C12_RoundTripWithoutBackslashLetter ==
    (pc = "EscapeOut" /\ ~BackslashBeforeLetter(fn_in)) => fn_out.unescaped = fn_in

\* a text with "=", a backslash and a line feed has made the round trip
C12_Witness ==
    /\ pc = "EscapeOut"
    /\ fn_in = <<"=", Backslash, Newline>>
    /\ fn_out.escaped = <<Backslash, "=", Backslash, Backslash, Backslash, "n">>
    /\ fn_out.unescaped = fn_in

(***************************************************************************)
(* C13                                                                     *)
(***************************************************************************)
\* the operations of a run that goes through every stage
StageOrder ==
    <<"makedirs", "get", "find_link", "get", "metadata", "exists",
      YT_DLP_EXECUTABLE, "write_metadata", FFMPEG_EXECUTABLE, "move">>

\* the stage the run stands before, by the length of its log
NextStage ==
    <<"FetchMainPage", "FindEpisodeLink", "FetchEpisodePage", "ExtractMetadata",
      "CheckTargetExists", "Download", "WriteMetadata", "Tag", "Move">>

\* C13: the stages of a run happen in the fixed order listing fetch, link
\* extraction, episode fetch, metadata extraction, existence check,
\* download, descriptor write, remux, publish; a stage runs only if every
\* stage before it succeeded, so a failed stage is the last one; ffmpeg is
\* invoked only after yt-dlp succeeded and left its file, the move only
\* after ffmpeg succeeded and left its file.
C13_StagesInOrder ==
    /\ Len(log) <= Len(StageOrder)
    /\ \A i \in 1..Len(log) :
         /\ log[i].op = StageOrder[i]
         /\ i < Len(log) => log[i].result \in {"ok", "absent"}
    /\ (Len(log) > 0 /\ Last(log).result \in {"failed", "found"}) => pc = "Exited"
    /\ (pc \notin {"NotStarted", "Exited"}) => pc = NextStage[Len(log)]
    /\ pc = "Tag" =>
         /\ HasEntry(log, Entry(YT_DLP_EXECUTABLE, "ok"))
         /\ PathExists(temp_dir.files, temp_download_path_m4a)
    /\ pc = "Move" =>
         /\ HasEntry(log, Entry(FFMPEG_EXECUTABLE, "ok"))
         /\ PathExists(temp_dir.files, temp_tagged_output_path_m4a)
    /\ \A i \in 1..Len(log) :
         /\ log[i].op = FFMPEG_EXECUTABLE
               => \E j \in 1..(i - 1) : log[j] = Entry(YT_DLP_EXECUTABLE, "ok")
         /\ log[i].op = "move"
               => \E j \in 1..(i - 1) : log[j] = Entry(FFMPEG_EXECUTABLE, "ok")

\* a run went through all its stages, and a run before it stopped at a
\* failed download
C13_Witness ==
    /\ pc = "Exited"
    /\ Len(log) = Len(StageOrder)
    /\ Last(log) = Entry("move", "ok")
    /\ prev.valid
    /\ Last(prev.log) = Entry(YT_DLP_EXECUTABLE, "failed")

(***************************************************************************)
(* C14                                                                     *)
(***************************************************************************)
\* C14: yt-dlp and ffmpeg each count as succeeded exactly when the tool
\* exited with status 0 and its output file exists afterwards; in every
\* other case the run goes no further, has exit code 1, makes no move and
\* leaves the target directory as it found it.
C14_ToolSucceedsWithStatusAndOutput ==
    (Len(log) > 0 /\ Last(log).op \in {YT_DLP_EXECUTABLE, FFMPEG_EXECUTABLE}) =>
        /\ tool_result.invoked
        /\ (Last(log).result = "ok")
              = (tool_result.success /\ tool_result.output_exists)
        /\ (pc # "Exited") = (tool_result.success /\ tool_result.output_exists)
        /\ ~(tool_result.success /\ tool_result.output_exists) =>
              /\ Last(log).result = "failed"
              /\ pc = "Exited"
              /\ exit_code = 1
              /\ CountOp(log, "move") = 0
              /\ target_dir = start_dir

\* ffmpeg exited with status 0 without leaving its output file, and the run
\* ended with exit code 1
C14_Witness ==
    /\ pc = "Exited"
    /\ exit_code = 1
    /\ Len(log) > 0
    /\ Last(log) = Entry(FFMPEG_EXECUTABLE, "failed")
    /\ tool_result = ToolResult(TRUE, FALSE)

(***************************************************************************)
(* C15, C16                                                                *)
(***************************************************************************)
\* the position of the start tag of the first teaser article, 0 without one
FirstTeaser(html) ==
    IF \E i \in 1..Len(html) : html[i].bs_article
    THEN CHOOSE i \in 1..Len(html) :
            html[i].bs_article /\ \A k \in 1..(i - 1) : ~html[k].bs_article
    ELSE 0

\* position j lies inside the article that starts at position i
InsideArticle(html, i, j) ==
    /\ i < j
    /\ j <= Len(html)
    /\ \A e \in (i + 1)..j :
         html[e].kind = "/article" =>
            Cardinality({k \in (i + 1)..e : html[k].kind = "/article"})
               <= Cardinality({k \in (i + 1)..e : html[k].kind = "article"})

\* the position of the first anchor with an href inside the first teaser
\* article, 0 without one
FirstTeaserAnchor(html) ==
    LET i == FirstTeaser(html)
        inside == {j \in 1..Len(html) :
                      i # 0 /\ InsideArticle(html, i, j) /\ html[j].bs_anchor}
    IN  IF inside = {} THEN 0
        ELSE CHOOSE j \in inside : \A j2 \in inside : j <= j2

\* C15: whenever the link extraction succeeds, the href it captured is the
\* href of the first anchor with an href inside the first teaser article:
\* not that of an anchor outside the article, nor that of a later anchor of
\* the article.
C15_FirstAnchorOfFirstTeaser ==
    HasEntry(log, Entry("find_link", "ok")) =>
        /\ FirstTeaserAnchor(main_page_html) # 0
        /\ relative_episode_url = main_page_html[FirstTeaserAnchor(main_page_html)].href

\* C16: the fallback is consulted exactly when the pattern finds no match;
\* when it then finds, in the first teaser article, a first anchor with an
\* href whose value is not empty, the run goes on with that href; when
\* neither the pattern nor the fallback gives a non-empty href, the run
\* ends with exit code 1 without having fetched an episode page.
C16_FallbackAfterPattern ==
    CountOp(log, "find_link") > 0 =>
        LET html == main_page_html
            a == FirstTeaserAnchor(html)
            fallback_href == IF a = 0 THEN <<>> ELSE html[a].href
        IN  /\ (link_strategy = "soup") = (RegexAnchorPos(html) = 0)
            /\ (link_strategy = "regex") = (RegexAnchorPos(html) # 0)
            /\ link_strategy = "regex" =>
                  /\ HasEntry(log, Entry("find_link", "ok"))
                  /\ relative_episode_url = html[RegexAnchorPos(html)].href
            /\ (link_strategy = "soup" /\ fallback_href # <<>>) =>
                  /\ HasEntry(log, Entry("find_link", "ok"))
                  /\ relative_episode_url = fallback_href
            /\ (link_strategy = "soup" /\ fallback_href = <<>>) =>
                  /\ pc = "Exited"
                  /\ exit_code = 1
                  /\ Last(log) = Entry("find_link", "failed")
                  /\ CountOp(log, "get") = 1

\* the pattern found nothing in a page whose teaser article has its id
\* before its class, the fallback found the anchor in it, and the episode
\* page was fetched from there
C16_Witness ==
    /\ main_page_html = <<TeaserIdFirst, AnchorClassFirst(HrefOther), EndArticle>>
    /\ link_strategy = "soup"
    /\ relative_episode_url = HrefOther
    /\ pc = "ExtractMetadata"

(***************************************************************************)
(* C17                                                                     *)
(***************************************************************************)
\* C17: when the move fails, the run ends with exit code 1 and the tagged
\* file is still in the temporary directory, at the path the run reported,
\* after the run has ended.
C17_TaggedFileKeptAfterFailedMove ==
    (pc = "Exited" /\ Len(log) > 0 /\ Last(log) = Entry("move", "failed")) =>
        /\ exit_code = 1
        /\ temp_dir.exists
        /\ PathExists(temp_dir.files, temp_tagged_output_path_m4a)

(***************************************************************************)
(* C18                                                                     *)
(***************************************************************************)
\* the lines of a text: str.split("\n")
RECURSIVE SplitLines(_)
SplitLines(text) ==
    IF \E i \in 1..Len(text) : text[i] = Newline
    THEN LET i == CHOOSE k \in 1..Len(text) :
                     text[k] = Newline /\ \A j \in 1..(k - 1) : text[j] # Newline
         IN  <<SubSeq(text, 1, i - 1)>> \o SplitLines(SubSeq(text, i + 1, Len(text)))
    ELSE <<text>>

\* what a reader of the descriptor makes of a value, from left to right: a
\* backslash and n is a line feed, a backslash and r a carriage return, a
\* backslash and any other character that character
RECURSIVE ReadValue(_)
ReadValue(s) ==
    IF s = <<>> THEN <<>>
    ELSE IF s[1] = Backslash /\ Len(s) >= 2
         THEN <<CASE s[2] = "n" -> Newline
                  [] s[2] = "r" -> CarriageReturn
                  [] OTHER -> s[2]>> \o ReadValue(SubSeq(s, 3, Len(s)))
    ELSE <<s[1]>> \o ReadValue(Tail(s))

\* the "=" at position j of s is escaped: an odd number of backslashes
\* stands directly before it
EscapedAt(s, j) ==
    LET run_start == CHOOSE k \in 1..j :
                        /\ \A i \in k..(j - 1) : s[i] = Backslash
                        /\ k = 1 \/ s[k - 1] # Backslash
    IN  (j - run_start) % 2 = 1

\* the line is key=value, the value reads as v and holds no "=" that is not
\* escaped
IsTagLine(line, key, v) ==
    /\ StartsWith(line, key \o <<"=">>)
    /\ LET value == SubSeq(line, Len(key) + 2, Len(line))
       IN  /\ ReadValue(value) = v
           /\ \A j \in 1..Len(value) : value[j] = "=" => EscapedAt(value, j)

\* the descriptor file of the current run
DescriptorText == ContentOf(temp_dir.files, temp_metadata_filepath).text

\* C18: the descriptor file written before the remux has exactly nine
\* lines: the marker ;FFMETADATA1, then album, artist, title, description,
\* comment, date, copyright and show, in this order; title reads as the
\* show title, description as the subtitle, comment as the description,
\* date as the ISO date and copyright as the episode URL; whatever the
\* values hold, none of them adds a line or an "=" that is not escaped.
C18_DescriptorNineLines ==
    HasEntry(log, Entry("write_metadata", "ok")) /\ pc = "Tag" =>
        LET lines == SplitLines(DescriptorText)
        IN  /\ Len(lines) = 9
            /\ \A i \in 1..Len(DescriptorText) : DescriptorText[i] # CarriageReturn
            /\ lines[1] = <<";", "F", "F", "M", "E", "T", "A", "D", "A", "T", "A", "1">>
            /\ lines[2] = <<"a", "l", "b", "u", "m", "=", "K", "l", "a", "s", "s", "i", "k", ",", " ", "P", "o", "p", " ", "e", "t", " ", "c", "e", "t", "e", "r", "a">>
            /\ lines[3] = <<"a", "r", "t", "i", "s", "t", "=", "D", "e", "u", "t", "s", "c", "h", "l", "a", "n", "d", "f", "u", "n", "k">>
            /\ IsTagLine(lines[4], <<"t", "i", "t", "l", "e">>, meta.title)
            /\ IsTagLine(lines[5], <<"d", "e", "s", "c", "r", "i", "p", "t", "i", "o", "n">>, meta.subtitle)
            /\ IsTagLine(lines[6], <<"c", "o", "m", "m", "e", "n", "t">>, meta.description)
            /\ IsTagLine(lines[7], <<"d", "a", "t", "e">>, meta.iso_date)
            /\ IsTagLine(lines[8], <<"c", "o", "p", "y", "r", "i", "g", "h", "t">>, episode_url)
            /\ lines[9] = <<"s", "h", "o", "w", "=", "K", "l", "a", "s", "s", "i", "k", ",", " ", "P", "o", "p", " ", "e", "t", " ", "c", "e", "t", "e", "r", "a">>

\* the descriptor of an episode whose title holds "=", a line feed and a
\* backslash, with an episode URL that holds "="
C18_Witness ==
    /\ pc = "Tag"
    /\ meta.title = <<"=", Newline, Backslash>>
    /\ episode_url = HrefWithQuery
    /\ SplitLines(DescriptorText)[4] = <<"t", "i", "t", "l", "e", "=", Backslash, "=", Backslash, "n", Backslash, Backslash>>
    /\ SplitLines(DescriptorText)[8] = <<"c", "o", "p", "y", "r", "i", "g", "h", "t", "=", "h", "t", "t", "p", "s", ":", "/", "/", "h", "/", "e", "?", "q", Backslash, "=", "1">>

(***************************************************************************)
(* C19                                                                     *)
(***************************************************************************)
\* C19: two episodes whose (isoDate, showTitle) differ have different
\* target paths, so that the file of one is never found by the existence
\* check of a run for the other.
C19_DistinctEpisodesDistinctPaths ==
    pc = "FilenameOut" =>
        (<<fn_out.a.iso_date, fn_out.a.title>> # <<fn_out.b.iso_date, fn_out.b.title>>
            => fn_out.a.final_filename # fn_out.b.final_filename)

====
